---- MODULE Spec2Model ----
(***************************************************************************)
(* Model of the request/reply correlator of the Vaksi maubot plugin        *)
(* (src/vaksi/__init__.py): the per-bridge FIFO queue, the single "sink"   *)
(* slot, the asyncio futures handed to callers, the asyncio.timeout around *)
(* each wait, panic_flush, and the passive handlers that resolve replies.  *)
(*                                                                         *)
(* Every action is one run of a coroutine between two suspension points of *)
(* the asyncio event loop, so it is atomic with respect to the others.     *)
(* The loop runs scheduled callbacks first in, first out: the wake-up of a *)
(* task whose future was ended and the first step of a handler task are    *)
(* kept in that order in "ready".  Timers, HTTP calls and inbound notices  *)
(* come from outside and may arrive between any two steps.                 *)
(***************************************************************************)
EXTENDS Integers, Sequences, FiniteSets

\* ---------------------------------------------------------------- bounds
\* Number of HTTP calls to open_slack_pm that are ever started.
NReq == 3
\* Number of inbound notices that are ever observed.
MaxMsgs == 2
\* Number of calls in the runs that also follow the send_message tasks.
NSend == 2

Req == 1..NReq
\* Python's None in self.sinks / self.gc_preventer.
None == 0

\* config["bridges"]["slack"] and some other sender.
Trusted == "bridge"
Stranger == "stranger"
Senders == {Trusted, Stranger}

VARIABLES
    queues,        \* self.queues["slack"]: deque of (act, sink), by request id
    sinks,         \* self.sinks["slack"]: request whose future is installed, or None
    gc_preventer,  \* self.gc_preventer["slack"]: request whose task was created last
    fut,           \* state of the asyncio.Future made by sequential() per request
    act,           \* send_message coroutine of each request: "coro" once built,
                   \* "task" once try_fire passed it to asyncio.create_task,
                   \* "sent" or "failed" once that task has ended
    pc,            \* position of each open_slack_pm call
    outcome,       \* what open_slack_pm returned or raised to its caller
    evt,           \* the inbound notice being dispatched to the passive handlers
    ready,         \* callbacks the event loop has scheduled, oldest first
    nmsgs,         \* number of notices observed so far
    exc,           \* exception raised inside the last step ("none" if none)
    logged,        \* self.log.debug line written by the last step ("none" if none)
    hist           \* history: dispatches, failed sends and ends of futures by reply
                   \* or timer, in order

chan == <<queues, sinks, gc_preventer>>
vars == <<queues, sinks, gc_preventer, fut, act, pc, outcome, evt, ready, nmsgs, exc, logged, hist>>

\* The mutable plugin state the synchronous methods work on, as one value.
Cur == [queues |-> queues, sinks |-> sinks, gc_preventer |-> gc_preventer,
        fut |-> fut, act |-> act, ready |-> ready, hist |-> hist]

\* Writes a value of the shape of Cur back to the variables.
Store(st) ==
    /\ queues' = st.queues
    /\ sinks' = st.sinks
    /\ gc_preventer' = st.gc_preventer
    /\ fut' = st.fut
    /\ act' = st.act
    /\ ready' = st.ready
    /\ hist' = st.hist

\* ------------------------------------------------------------ try_fire
\* Variant of try_fire that takes the newest entry of the deque (pop instead
\* of popleft).
try_fire_lifo(st) ==
    IF st.sinks # None
    THEN st
    ELSE IF st.queues = <<>>
    THEN st
    ELSE LET r == st.queues[Len(st.queues)] IN
         [st EXCEPT !.queues = SubSeq(st.queues, 1, Len(st.queues) - 1),
                    !.sinks = r,
                    !.gc_preventer = r,
                    !.act = [@ EXCEPT ![r] = "task"],
                    !.hist = Append(@, <<"fire", r>>)]

\* Variant of try_fire that keeps firing while the deque has entries (two
\* at most here), as a "while" in place of the second "if" would.
try_fire_two(st) ==
    IF st.sinks # None
    THEN st
    ELSE IF st.queues = <<>>
    THEN st
    ELSE LET r == Head(st.queues)
             one == [st EXCEPT !.queues = Tail(st.queues),
                               !.sinks = r,
                               !.gc_preventer = r,
                               !.act = [@ EXCEPT ![r] = "task"],
                               !.hist = Append(@, <<"fire", r>>)] IN
         IF one.queues = <<>>
         THEN one
         ELSE LET q == Head(one.queues) IN
              [one EXCEPT !.queues = Tail(one.queues),
                          !.sinks = q,
                          !.gc_preventer = q,
                          !.act = [@ EXCEPT ![q] = "task"],
                          !.hist = Append(@, <<"fire", q>>)]

try_fire(st) ==
    IF st.sinks # None
    THEN st
    ELSE IF st.queues = <<>>
    THEN st
    ELSE LET r == Head(st.queues) IN
         [st EXCEPT !.queues = Tail(st.queues),
                    !.sinks = r,
                    !.gc_preventer = r,
                    !.act = [@ EXCEPT ![r] = "task"],
                    !.hist = Append(@, <<"fire", r>>)]

\* ---------------------------------------------------------- sequential
sequential(st, r) ==
    try_fire([st EXCEPT !.fut = [@ EXCEPT ![r] = "pending"],
                        !.queues = Append(@, r)])

\* --------------------------------------------------------- panic_flush
\* Future.set_exception raises InvalidStateError on a future that is not
\* pending; the loop then stops with the rest of the deque in place.  Ending
\* a future schedules the wake-up of the task that awaits it.
RECURSIVE drain(_)
drain(st) ==
    IF st.queues = <<>>
    THEN [st |-> st, raised |-> "none"]
    ELSE LET r == Head(st.queues)
             popped == [st EXCEPT !.queues = Tail(st.queues)] IN
         IF st.fut[r] = "pending"
         THEN drain([popped EXCEPT !.fut = [@ EXCEPT ![r] = "BotException"],
                                   !.ready = Append(@, <<"wake", r>>)])
         ELSE [st |-> popped, raised |-> "InvalidStateError"]

\* Variant of panic_flush that forgets to clear the sink.
panic_flush_keeps_sink(st) ==
    drain(st)

panic_flush(st) ==
    drain([st EXCEPT !.sinks = None])

\* ------------------------------------------------------- match_request
\* Variant of match_request without the check of the sender.
match_request_any_sender(st, sender) ==
    IF st.sinks = None
    THEN [st |-> st, sink |-> None, logged |-> "Unexpected bot response"]
    ELSE [st |-> try_fire([st EXCEPT !.sinks = None]), sink |-> st.sinks,
          logged |-> "none"]

match_request(st, sender) ==
    IF sender # Trusted
    THEN [st |-> st, sink |-> None, logged |-> "Incorrect user"]
    ELSE IF st.sinks = None
    THEN [st |-> st, sink |-> None, logged |-> "Unexpected bot response"]
    ELSE [st |-> try_fire([st EXCEPT !.sinks = None]), sink |-> st.sinks,
          logged |-> "none"]

\* Future.set_result / Future.set_exception on the future of request r.
set_future(st, r, value) ==
    IF st.fut[r] = "pending"
    THEN [st |-> [st EXCEPT !.fut = [@ EXCEPT ![r] = value],
                            !.ready = Append(@, <<"wake", r>>),
                            !.hist = Append(@, <<"set", r>>)],
          raised |-> "none"]
    ELSE [st |-> st, raised |-> "InvalidStateError"]

\* Body shared by the two passive handlers, which differ in the value set.
\* Variant of the handlers without "if req is not None".
collect_unchecked(st, sender, value) ==
    LET m == match_request(st, sender) IN
    IF m.sink # None
    THEN LET f == set_future(m.st, m.sink, value) IN
         [st |-> f.st, raised |-> f.raised, req |-> m.sink, logged |-> m.logged]
    ELSE [st |-> m.st, raised |-> "AttributeError", req |-> None,
          logged |-> m.logged]

collect(st, sender, value) ==
    LET m == match_request(st, sender) IN
    IF m.sink # None
    THEN LET f == set_future(m.st, m.sink, value) IN
         [st |-> f.st, raised |-> f.raised, req |-> m.sink, logged |-> m.logged]
    ELSE [st |-> m.st, raised |-> "none", req |-> None, logged |-> m.logged]

collect_error(st, sender) == collect(st, sender, "SlackException")

collect_room_id(st, sender) == collect(st, sender, "result")

\* ------------------------------------------------------------------ Init
NoEvt == [sender |-> Stranger, todo |-> {}, got |-> {}, shape |-> {}, re |-> None]

Init ==
    /\ queues = <<>>
    /\ sinks = None
    /\ gc_preventer = None
    /\ fut = [r \in Req |-> "none"]
    /\ act = [r \in Req |-> "none"]
    /\ pc = [r \in Req |-> "idle"]
    /\ outcome = [r \in Req |-> "none"]
    /\ evt = NoEvt
    /\ ready = <<>>
    /\ nmsgs = 0
    /\ exc = "none"
    /\ logged = "none"
    /\ hist = <<>>

\* Requests in the order try_fire created their task.
Fired == SelectSeq(hist, LAMBDA e : e[1] = "fire")

LookupResults == {"dm", "nodm", "MatrixError"}

\* The handler tasks of one notice are created together, so they run one
\* after the other with nothing from outside between them.
BetweenHandlers == evt.todo # {} /\ evt.todo # evt.shape

\* Variant of open_slack_pm that queues the command before it looks at the
\* result of find_matrix_pm.
Open_queues_first(r, res) ==
    /\ pc[r] = "idle"
    /\ ~BetweenHandlers
    /\ \A q \in Req : q < r => pc[q] # "idle"
    /\ exc' = "none"
    /\ logged' = "none"
    /\ Store(sequential([Cur EXCEPT !.act = [@ EXCEPT ![r] = "coro"]], r))
    /\ IF res = "dm"
       THEN /\ pc' = [pc EXCEPT ![r] = "waiting"]
            /\ UNCHANGED <<outcome, evt, nmsgs>>
       ELSE /\ pc' = [pc EXCEPT ![r] = "done"]
            /\ outcome' = [outcome EXCEPT ![r] =
                   IF res = "nodm" THEN "NoPM" ELSE "MatrixError"]
            /\ UNCHANGED <<evt, nmsgs>>

\* open_slack_pm from the return of find_matrix_pm to its next suspension:
\* without a room it raises, otherwise it builds the coroutine, enters
\* asyncio.timeout, calls sequential and suspends on the future.  Requests
\* are numbered in the order in which they reach this step.
Open(r, res) ==
    /\ pc[r] = "idle"
    /\ ~BetweenHandlers
    /\ \A q \in Req : q < r => pc[q] # "idle"
    /\ exc' = "none"
    /\ logged' = "none"
    /\ IF res = "dm"
       THEN /\ Store(sequential([Cur EXCEPT !.act = [@ EXCEPT ![r] = "coro"]], r))
            /\ pc' = [pc EXCEPT ![r] = "waiting"]
            /\ UNCHANGED <<outcome, evt, nmsgs>>
       ELSE /\ pc' = [pc EXCEPT ![r] = "done"]
            /\ outcome' = [outcome EXCEPT ![r] =
                   IF res = "nodm" THEN "NoPM" ELSE "MatrixError"]
            /\ UNCHANGED <<chan, fut, act, evt, ready, nmsgs, hist>>

\* The timers of asyncio.timeout fire in deadline order, which is the order
\* in which the callers entered the block (one bridge_timeout for all).
TimerDue(r) ==
    /\ pc[r] = "waiting"
    /\ \A q \in Req : q < r => pc[q] # "waiting"

\* The deadline passes: Timeout._on_timeout calls Task.cancel, which cancels
\* the awaited future if it is still pending and otherwise marks the task so
\* that its next step raises CancelledError.
Timer(r) ==
    /\ TimerDue(r)
    /\ ~BetweenHandlers
    /\ fut' = [fut EXCEPT ![r] = IF @ = "pending" THEN "cancelled" ELSE @]
    /\ ready' = IF fut[r] = "pending" THEN Append(ready, <<"wake", r>>) ELSE ready
    /\ hist' = IF fut[r] = "pending" THEN Append(hist, <<"cancel", r>>) ELSE hist
    /\ pc' = [pc EXCEPT ![r] = "expiring"]
    /\ exc' = "none"
    /\ logged' = "none"
    /\ UNCHANGED <<chan, act, outcome, evt, nmsgs>>

FutureOutcome(f) ==
    CASE f = "result" -> "room"
      [] f = "SlackException" -> "SlackException"
      [] f = "BotException" -> "Abandoned"

\* The caller's task resumes with the future done before its deadline.
Return(r) ==
    /\ pc[r] = "waiting"
    /\ ready # <<>> /\ Head(ready) = <<"wake", r>>
    /\ ready' = Tail(ready)
    /\ pc' = [pc EXCEPT ![r] = "done"]
    /\ outcome' = [outcome EXCEPT ![r] = FutureOutcome(fut[r])]
    /\ exc' = "none"
    /\ logged' = "none"
    /\ UNCHANGED <<chan, fut, act, evt, nmsgs, hist>>

\* The caller's task resumes after its timer fired: TimeoutError, panic_flush,
\* then "Timeout while communicating with the bot" unless panic_flush raised.
TimeoutStep(r) ==
    /\ pc[r] = "expiring"
    /\ ready # <<>> /\ Head(ready) = <<"wake", r>>
    /\ LET p == panic_flush([Cur EXCEPT !.ready = Tail(@)]) IN
       /\ Store(p.st)
       /\ exc' = p.raised
       /\ logged' = "Bot response timeout"
       /\ outcome' = [outcome EXCEPT ![r] =
              IF p.raised = "none" THEN "Unresponsive" ELSE p.raised]
    /\ pc' = [pc EXCEPT ![r] = "done"]
    /\ UNCHANGED <<evt, nmsgs>>

\* ------------------------------------------------------- inbound notices
Handlers == {"collect_error", "collect_room_id"}
Shapes == {{"collect_error"}, {"collect_room_id"}, Handlers}

\* A notice arrives and maubot schedules every passive handler whose
\* pattern matches it.  evt.got collects the requests whose future the
\* handlers of this notice took from the sink; the notice is gone once its
\* last handler has run.  order is the order in which the handlers are
\* registered: collect_error comes before collect_room_id both in the class
\* body and by name.  evt.shape keeps the patterns
\* the notice matches; evt.re is the request whose command the notice
\* answers, None when that is not known.
Orders == {<<"collect_error", "collect_room_id">>}
Scheduled(shape, order) ==
    SelectSeq([i \in 1..2 |-> <<"handler", order[i]>>], LAMBDA e : e[2] \in shape)

Observe(sender, shape, order) ==
    /\ evt.todo = {}
    /\ nmsgs < MaxMsgs
    /\ evt' = [sender |-> sender, todo |-> shape, got |-> {}, shape |-> shape,
               re |-> None]
    /\ ready' = ready \o Scheduled(shape, order)
    /\ nmsgs' = nmsgs + 1
    /\ exc' = "none"
    /\ logged' = "none"
    /\ UNCHANGED <<chan, fut, act, pc, outcome, hist>>

Handled(e, h, req) ==
    IF e.todo = {h}
    THEN NoEvt
    ELSE [e EXCEPT !.todo = @ \ {h}, !.got = @ \cup ({req} \ {None})]

CollectError ==
    /\ ready # <<>> /\ Head(ready) = <<"handler", "collect_error">>
    /\ LET c == collect_error([Cur EXCEPT !.ready = Tail(@)], evt.sender) IN
       /\ Store(c.st)
       /\ exc' = c.raised
       /\ logged' = c.logged
       /\ evt' = Handled(evt, "collect_error", c.req)
    /\ UNCHANGED <<pc, outcome, nmsgs>>

CollectRoomId ==
    /\ ready # <<>> /\ Head(ready) = <<"handler", "collect_room_id">>
    /\ LET c == collect_room_id([Cur EXCEPT !.ready = Tail(@)], evt.sender) IN
       /\ Store(c.st)
       /\ exc' = c.raised
       /\ logged' = c.logged
       /\ evt' = Handled(evt, "collect_room_id", c.req)
    /\ UNCHANGED <<pc, outcome, nmsgs>>

Next ==
    \/ \E r \in Req, res \in LookupResults : Open(r, res)
    \/ \E r \in Req : Timer(r)
    \/ \E r \in Req : Return(r)
    \/ \E r \in Req : TimeoutStep(r)
    \/ \E s \in Senders, sh \in Shapes, o \in Orders : Observe(s, sh, o)
    \/ CollectError
    \/ CollectRoomId

Spec == Init /\ [][Next]_vars

\* ------------------------------------------- runs with the send tasks
SendReq == {r \in Req : r <= NSend}

\* The task created by try_fire runs send_message to its end: the homeserver
\* accepts the command, or the task dies with a MatrixStandardRequestError
\* that nobody retrieves (only gc_preventer refers to the task).
ActDone(r, ok) ==
    /\ act[r] = "task"
    /\ ~BetweenHandlers
    /\ act' = [act EXCEPT ![r] = IF ok THEN "sent" ELSE "failed"]
    /\ hist' = IF ok THEN hist ELSE Append(hist, <<"sendfail", r>>)
    /\ exc' = "none"
    /\ logged' = "none"
    /\ UNCHANGED <<chan, fut, pc, outcome, evt, ready, nmsgs>>

\* The bridge answers the command of request k, which it has received, with
\* a notice of the given shape.
Reply(k, shape, order) ==
    /\ act[k] = "sent"
    /\ evt.todo = {}
    /\ nmsgs < MaxMsgs
    /\ evt' = [sender |-> Trusted, todo |-> shape, got |-> {}, shape |-> shape,
               re |-> k]
    /\ ready' = ready \o Scheduled(shape, order)
    /\ nmsgs' = nmsgs + 1
    /\ exc' = "none"
    /\ logged' = "none"
    /\ UNCHANGED <<chan, fut, act, pc, outcome, hist>>

NextSend ==
    \/ \E r \in SendReq, res \in LookupResults : Open(r, res)
    \/ \E r \in SendReq : Timer(r)
    \/ \E r \in SendReq : Return(r)
    \/ \E r \in SendReq : TimeoutStep(r)
    \/ \E r \in SendReq, ok \in BOOLEAN : ActDone(r, ok)
    \/ \E s \in Senders, sh \in Shapes, o \in Orders : Observe(s, sh, o)
    \/ \E k \in SendReq, sh \in Shapes, o \in Orders : Reply(k, sh, o)
    \/ CollectError
    \/ CollectRoomId

SpecSend == Init /\ [][NextSend]_vars

\* ------------------------------------------------------------- web layer
\* The exception open_slack_pm raises for an outcome.
Raised(o) ==
    CASE o \in {"NoPM", "Unresponsive", "Abandoned"} -> "BotException"
      [] o = "SlackException" -> "SlackException"
      [] o = "MatrixError" -> "MatrixStandardRequestError"
      [] o = "InvalidStateError" -> "InvalidStateError"
      [] OTHER -> "none"

\* The "source" web_slack_find_pm puts into its JSON answer for an exception
\* of open_slack_pm; an exception it does not catch leaves the handler.
web_slack_find_pm(e) ==
    CASE e = "MatrixStandardRequestError" -> "matrix"
      [] e = "BotException" -> "bot"
      [] e = "SlackException" -> "slack"
      [] OTHER -> "uncaught"

\* ------------------------------------------------------------ vocabulary
InQueue(r) == \E i \in 1..Len(queues) : queues[i] = r
\* sequential() has been called for r.
WasSubmitted(r) == fut[r] # "none"
\* try_fire has created the task of r's action.
WasFired(r) == act[r] \in {"task", "sent", "failed"}
\* r's caller is suspended on a future nobody has ended yet.
Awaiting(r) == pc[r] = "waiting" /\ fut[r] = "pending"
InFlight == {r \in Req : WasFired(r) /\ Awaiting(r)}
Empty == sinks = None /\ queues = <<>>

\* Steps, recognised by what they change.
HandlerStep == evt.todo # {} /\ evt' # evt
Submits(r) == pc[r] = "idle" /\ pc'[r] = "waiting"
TimesOut(k) == pc[k] = "expiring" /\ pc'[k] = "done"
Core == <<queues, sinks, gc_preventer, fut, act, pc, outcome, hist>>

TypeOK ==
    /\ sinks \in Req \cup {None}
    /\ \A i \in 1..Len(queues) : queues[i] \in Req
    /\ \A r \in Req : fut[r] \in {"none", "pending", "result", "SlackException",
                                  "BotException", "cancelled"}

\* ---------------------------------------------------------------- claims

\* C1: at most one request has been dispatched by try_fire and is still
\* awaiting its outcome; every other request still awaiting its outcome is in
\* the queue with its action not launched.
C1_SingleInFlight ==
    /\ Cardinality(InFlight) <= 1
    /\ \A r \in Req : (Awaiting(r) /\ r \notin InFlight)
                       => (InQueue(r) /\ act[r] = "coro")

\* Dispatches happen in submission order, each request at most once
\* (requests are numbered in submission order).
FifoFired ==
    \A i, j \in 1..Len(Fired) : i < j => Fired[i][2] < Fired[j][2]

\* C2 (as stated): dispatches happen in FIFO submission order and no submitted
\* request is left without its action being dispatched: a submitted request
\* that is not waiting in the queue has been dispatched.
C2_AllDispatchedFifo ==
    /\ FifoFired
    /\ \A r \in Req : WasSubmitted(r) => (InQueue(r) \/ WasFired(r))

\* C2 (amended): dispatches happen in FIFO submission order, each request at
\* most once, and a submitted request that is neither queued nor dispatched is
\* one that panic_flush took out of the queue: its future holds the panic
\* flush failure or had been cancelled by its own timeout.
C2_FifoOrFlushed ==
    /\ FifoFired
    /\ Len(Fired) <= Cardinality({r \in Req : WasSubmitted(r)})
    /\ \A r \in Req : WasSubmitted(r) =>
           \/ InQueue(r)
           \/ WasFired(r)
           \/ (fut[r] \in {"BotException", "cancelled"} /\ act[r] = "coro")

\* C2 witness: two requests were dispatched and another one was abandoned by
\* a panic flush without being dispatched.
C2_Witness ==
    /\ Len(Fired) >= 2
    /\ \E r \in Req : fut[r] = "BotException" /\ ~WasFired(r)

\* C3: when the timeout of request k is handled, k's caller gets the
\* Unresponsive failure and every other request still awaiting its outcome
\* is resolved with the panic flush failure.
C3_TimeoutAbandonsOthers ==
    [][\A k \in Req : TimesOut(k) =>
          /\ outcome'[k] = "Unresponsive"
          /\ \A r \in Req \ {k} : Awaiting(r) => fut'[r] = "BotException"]_vars

\* C4: when the timeout handling of a request has run and panic_flush
\* returned, the sink is None and the queue is empty; and an empty channel
\* stays empty until the next submit, which is dispatched at once.
C4_FreshQueueAfterFlush ==
    [][/\ (\E k \in Req : TimesOut(k) /\ exc' = "none") => Empty'
       /\ Empty => \/ Empty'
                   \/ \E r \in Req : /\ Submits(r)
                                      /\ sinks' = r
                                      /\ act'[r] = "task"
                                      /\ queues' = <<>>]_vars

\* C4 witness: a request was abandoned by a panic flush and a request
\* submitted after it sits in the sink, dispatched.
C4_Witness ==
    \E q, r \in Req :
        /\ q < r
        /\ fut[q] = "BotException"
        /\ sinks = r
        /\ WasFired(r)
        /\ queues = <<>>

\* C5: for consecutive dispatches of n and m, the future of n was ended (by a
\* reply or by its timeout) before m was dispatched.
C5_ResolveBeforeNextDispatch ==
    \A i \in 2..Len(Fired) :
        \E a, b \in 1..Len(hist) :
            /\ hist[a][1] \in {"set", "cancel"}
            /\ hist[a][2] = Fired[i-1][2]
            /\ hist[b] = Fired[i]
            /\ a < b

\* C6: a handler run for a notice whose sender is not the configured bridge
\* changes nothing of the channel, resolves nothing and dispatches nothing.
C6_UntrustedSenderIgnored ==
    [][(HandlerStep /\ evt.sender # Trusted)
          => (UNCHANGED Core /\ exc' = "none")]_vars

\* C6 witness: such a notice was just ignored while a request was in the sink
\* and another one in the queue.
C6_Witness ==
    /\ logged = "Incorrect user"
    /\ sinks # None
    /\ queues # <<>>

\* C7: when a handler of a notice has already taken a request from the sink,
\* a further handler run for the same notice is a no-op.
C7_SecondMatchNoOp ==
    [][(HandlerStep /\ evt.got # {})
          => UNCHANGED <<queues, sinks, gc_preventer, fut, act, hist>>]_vars

\* C8: no step sets a result or an exception on a future that is not
\* pending (Future.set_* answers that with InvalidStateError).
C8_SetAtMostOnce ==
    exc # "InvalidStateError"

\* C9: neither the sink nor the queue holds a future that is done.
C9_NoDoneHandleInChannel ==
    \A r \in Req : (sinks = r \/ InQueue(r)) => fut[r] = "pending"

\* C10: a handler run for a notice of the bridge while the sink is None
\* changes nothing, resolves nothing, dispatches nothing and does not raise.
C10_UnexpectedReplyNoOp ==
    [][(HandlerStep /\ evt.sender = Trusted /\ sinks = None)
          => (UNCHANGED Core /\ exc' = "none")]_vars

\* C10 witness: a reply of the bridge was just ignored as unexpected after
\* requests had been submitted.
C10_Witness ==
    /\ logged = "Unexpected bot response"
    /\ sinks = None
    /\ \E r \in Req : WasSubmitted(r)

\* C11: a handler run that takes the future out of the sink dispatches at
\* most one further request, and none when the queue is empty: the queue
\* loses at most one entry, and with an empty queue the sink stays None and
\* no task is created.
C11_ResolveDispatchesAtMostOne ==
    [][(HandlerStep /\ evt.sender = Trusted /\ sinks # None) =>
          /\ Len(Fired') <= Len(Fired) + 1
          /\ Len(queues') >= Len(queues) - 1
          /\ Len(queues') <= Len(queues)
          /\ queues = <<>> => (sinks' = None /\ act' = act /\ Fired' = Fired)
          /\ Fired' # Fired => (queues # <<>> /\ sinks' = Head(queues))]_vars

\* C11 witness: a reply has just resolved a request and dispatched the next
\* one while a third request stays in the queue.
C11_Witness ==
    /\ Len(hist) >= 2
    /\ hist[Len(hist) - 1][1] = "fire"
    /\ hist[Len(hist)][1] = "set"
    /\ sinks = hist[Len(hist) - 1][2]
    /\ queues # <<>>

\* C12: for a notice of the bridge that matches both patterns only the error
\* rule takes effect: a future its handlers end is ended with the remote
\* failure, never with a result, and once one handler has taken a request
\* no further handler of that notice ends another future.
C12_ErrorTakesPrecedence ==
    [][(HandlerStep /\ evt.sender = Trusted /\ evt.shape = Handlers) =>
          /\ \A r \in Req : fut'[r] # fut[r] => fut'[r] = "SlackException"
          /\ evt.got # {} => fut' = fut]_vars

\* The state of a request in the terms of the request state machine, from
\* the state f of its future and the state a of its coroutine.
StateOf(f, a) ==
    CASE f = "none" -> "New"
      [] f = "pending" /\ a = "coro" -> "Queued"
      [] f = "pending" /\ a = "task" -> "Dispatched"
      [] f = "result" -> "ResolvedSuccess"
      [] f = "SlackException" -> "ResolvedFailure"
      [] f = "cancelled" -> "TimedOut"
      [] f = "BotException" -> "Abandoned"
      [] OTHER -> "Unknown"

\* The moves of the request state machine; a submit that is dispatched in
\* the same step passes through Queued.
Moves ==
    {<<"New", "Queued">>, <<"New", "Dispatched">>, <<"Queued", "Dispatched">>,
     <<"Dispatched", "ResolvedSuccess">>, <<"Dispatched", "ResolvedFailure">>,
     <<"Dispatched", "TimedOut">>, <<"Queued", "Abandoned">>}

\* C13: every request follows the request state machine: each step leaves
\* its state alone or takes one of the moves, a task is only created for a
\* request whose future is not done, and no request that left the queue is
\* put into it again.
C13_RequestStateMachine ==
    [][\A r \in Req :
          /\ \/ StateOf(fut'[r], act'[r]) = StateOf(fut[r], act[r])
             \/ <<StateOf(fut[r], act[r]), StateOf(fut'[r], act'[r])>> \in Moves
          /\ (act[r] # "task" /\ act'[r] = "task") => fut[r] \in {"none", "pending"}
          /\ (InQueue(r)' /\ ~InQueue(r)) => fut[r] = "none"]_vars

\* The send of request r failed while its caller was still within its
\* deadline.
SendFailedFirst(r) ==
    \E i, j \in 1..Len(hist) :
        /\ i < j
        /\ hist[i] = <<"sendfail", r>>
        /\ hist[j] = <<"cancel", r>>

\* The layer in which the failure of request r arose: a lookup or a send
\* that failed in the chat transport, the bridge's own error reply, or the
\* queueing layer.
Layer(r) ==
    CASE outcome[r] = "MatrixError" -> "matrix"
      [] outcome[r] = "SlackException" -> "slack"
      [] outcome[r] = "Unresponsive" /\ SendFailedFirst(r) -> "matrix"
      [] OTHER -> "bot"

\* C14: every failure of open_slack_pm reaches the HTTP caller with the
\* source of the layer it arose in: "bot" for Unresponsive, Abandoned and no
\* conversation, "slack" for a failure the bridge reported, "matrix" for a
\* failure of the chat transport, a failed send of the dispatched command
\* included.
C14_SourceNamesLayer ==
    \A r \in Req : (pc[r] = "done" /\ outcome[r] # "room") =>
        web_slack_find_pm(Raised(outcome[r])) = Layer(r)

\* C15: a call that finds no direct room with the bridge fails with the
\* "No PM open" BotException before anything is queued: the deque, the sink,
\* the futures, the tasks and the scheduled callbacks stay as they are.
C15_NoRoomNothingQueued ==
    [][\A r \in Req : (pc[r] = "idle" /\ outcome'[r] = "NoPM") =>
          /\ UNCHANGED <<queues, sinks, gc_preventer, fut, act, ready, hist>>
          /\ pc'[r] = "done"
          /\ web_slack_find_pm(Raised(outcome'[r])) = "bot"]_vars

\* C15 witness: a call failed for want of a room while one request is in the
\* sink and another one in the queue, and it never got a future.
C15_Witness ==
    \E r \in Req :
        /\ outcome[r] = "NoPM"
        /\ fut[r] = "none"
        /\ sinks # None
        /\ queues # <<>>

\* C16: a request that has been dispatched and whose caller still waits on
\* its pending future has that future in the sink.
C16_NoOrphanInFlight ==
    \A r \in InFlight : sinks = r

\* C17: a notice the bridge sent in answer to the command of request k ends
\* no future but that of k.
C17_NoCrossTalk ==
    [][(HandlerStep /\ evt.re # None) =>
          \A r \in Req : fut'[r] # fut[r] => r = evt.re]_vars

\* C18: whenever the queue is not empty the sink is occupied.
C18_WorkConserving ==
    queues # <<>> => sinks # None

\* The scheduling the event loop gives: a timeout that is due fires, a woken
\* caller runs, a scheduled handler runs.
FairSpec ==
    /\ Spec
    /\ WF_vars(\E r \in Req : Timer(r))
    /\ WF_vars(\E r \in Req : Return(r))
    /\ WF_vars(\E r \in Req : TimeoutStep(r))
    /\ WF_vars(CollectError)
    /\ WF_vars(CollectRoomId)

Outcomes == {"room", "SlackException", "Unresponsive", "Abandoned"}

\* C19: a request that was submitted and has returned to its caller returned
\* a success value, a failure the bridge reported, Unresponsive or Abandoned.
C19_OneOfFourOutcomes ==
    \A r \in Req : (WasSubmitted(r) /\ pc[r] = "done") => outcome[r] \in Outcomes

\* C19, the waiting half: under FairSpec every caller that entered
\* open_slack_pm leaves it.
C19_NoCallerWaitsForever ==
    \A r \in Req : (pc[r] # "idle") ~> (pc[r] = "done")
====
